---- MODULE Spec2Model ----
(***************************************************************************)
(* The electricity dashboard: fetch_eia_v2_hourly_series (four file        *)
(* variants) and the top-to-bottom render script of                        *)
(* electricity_dashboard_final_debugged.py (fetch, Prophet forecast,       *)
(* renewables merge, intertie merge and spread).                           *)
(***************************************************************************)
EXTENDS Integers, Sequences, FiniteSets, TLC

\* ------------------------------------------------------------------ bounds
\* The upstream window holds days 0..MaxDay, readings 1..MaxValue, and a
\* response carries at most MaxRecords records.
MaxDay == 0
MaxValue == 2
MaxRecords == 2

\* ------------------------------------------------------------- cell values
\* A cell of a frame, or a JSON field: <<v>> holds v, <<>> is null/NaN/NaT.
NaN == <<>>

Some(v) == <<v>>

IsNull(c) == c = NaN

\* ------------------------------------------------------------- data frames
\* pd.DataFrame(): no columns, no rows.
EmptyFrame == [columns |-> <<>>, rows |-> <<>>]

\* A name the script has not bound yet.
Unbound == [unbound |-> TRUE]

\* DataFrame.empty: a zero-length axis.
IsEmpty(df) == df.columns = <<>> \/ df.rows = <<>>

HasColumn(df, name) == \E i \in 1..Len(df.columns) : df.columns[i] = name

ColIndex(df, name) == CHOOSE i \in 1..Len(df.columns) : df.columns[i] = name

\* df[name], as the sequence of its cells.
Column(df, name) == [i \in 1..Len(df.rows) |-> df.rows[i][ColIndex(df, name)]]

RECURSIVE Flatten(_)
Flatten(ss) == IF ss = <<>> THEN <<>> ELSE Head(ss) \o Flatten(Tail(ss))

Indices(n) == [i \in 1..n |-> i]

\* DataFrame.rename(columns={old: new}); a name that is no column is ignored.
RenameColumn(df, old, new) ==
    [df EXCEPT !.columns = [i \in 1..Len(df.columns) |->
                              IF df.columns[i] = old THEN new ELSE df.columns[i]]]

\* df[name] = cells: the column is overwritten, or appended as the last one.
SetColumn(df, name, cells) ==
    IF HasColumn(df, name)
        THEN [df EXCEPT !.rows = [i \in 1..Len(df.rows) |->
                                    [df.rows[i] EXCEPT ![ColIndex(df, name)] = cells[i]]]]
        ELSE [columns |-> Append(df.columns, name),
              rows |-> [i \in 1..Len(df.rows) |-> Append(df.rows[i], cells[i])]]

\* pandas' name for a value column that both sides of a merge carry.
SuffixTable ==
    [_DA |-> [demand |-> "demand_DA", net_generation |-> "net_generation_DA", wind |-> "wind_DA",
              solar |-> "solar_DA", net_interchange |-> "net_interchange_DA",
              lmp_da |-> "lmp_da_DA", lmp_rt |-> "lmp_rt_DA"],
     _RT |-> [demand |-> "demand_RT", net_generation |-> "net_generation_RT", wind |-> "wind_RT",
              solar |-> "solar_RT", net_interchange |-> "net_interchange_RT",
              lmp_da |-> "lmp_da_RT", lmp_rt |-> "lmp_rt_RT"],
     _x |-> [demand |-> "demand_x", net_generation |-> "net_generation_x", wind |-> "wind_x",
             solar |-> "solar_x", net_interchange |-> "net_interchange_x",
             lmp_da |-> "lmp_da_x", lmp_rt |-> "lmp_rt_x"],
     _y |-> [demand |-> "demand_y", net_generation |-> "net_generation_y", wind |-> "wind_y",
             solar |-> "solar_y", net_interchange |-> "net_interchange_y",
             lmp_da |-> "lmp_da_y", lmp_rt |-> "lmp_rt_y"]]

Suffixed(name, suffix) == SuffixTable[suffix][name]

\* merge()'s default suffixes.
DefaultSuffixes == <<"_x", "_y">>

\* A mutant: a left join, which keeps a left row that has no match.
merge_left(left, right, on, suffixes) ==
    LET lk == ColIndex(left, on)
        rk == ColIndex(right, on)
        rest == SelectSeq(Indices(Len(right.columns)), LAMBDA j : j # rk)
        matches(i) ==
            SelectSeq(Indices(Len(right.rows)), LAMBDA j : right.rows[j][rk] = left.rows[i][lk])
        joined(i) ==
            IF matches(i) = <<>>
                THEN <<left.rows[i] \o [k \in 1..Len(rest) |-> NaN]>>
                ELSE [m \in 1..Len(matches(i)) |->
                        left.rows[i] \o [k \in 1..Len(rest) |-> right.rows[matches(i)[m]][rest[k]]]]
    IN  [columns |-> left.columns \o [k \in 1..Len(rest) |-> right.columns[rest[k]]],
         rows |-> Flatten([i \in 1..Len(left.rows) |-> joined(i)])]

\* A mutant: a lookup, which pairs a left row with its first match only.
merge_first_match(left, right, on, suffixes) ==
    LET lk == ColIndex(left, on)
        rk == ColIndex(right, on)
        rest == SelectSeq(Indices(Len(right.columns)), LAMBDA j : j # rk)
        matches(i) ==
            SelectSeq(Indices(Len(right.rows)), LAMBDA j : right.rows[j][rk] = left.rows[i][lk])
        joined(i) ==
            IF matches(i) = <<>>
                THEN <<>>
                ELSE <<left.rows[i] \o [k \in 1..Len(rest) |-> right.rows[matches(i)[1]][rest[k]]]>>
    IN  [columns |-> left.columns \o [k \in 1..Len(rest) |-> right.columns[rest[k]]],
         rows |-> Flatten([i \in 1..Len(left.rows) |-> joined(i)])]

\* left.merge(right, on=on, suffixes=suffixes): the inner join. Every left row, in
\* order, is paired with every right row of the same key, in order; the columns
\* are the left's, then the right's without the key; a value column both sides
\* carry gets the side's suffix.
merge(left, right, on, suffixes) ==
    LET lk == ColIndex(left, on)
        rk == ColIndex(right, on)
        rest == SelectSeq(Indices(Len(right.columns)), LAMBDA j : j # rk)
        overlap ==
            {left.columns[i] : i \in (1..Len(left.columns)) \ {lk}}
                \cap {right.columns[j] : j \in (1..Len(right.columns)) \ {rk}}
        lname(c) == IF c \in overlap THEN Suffixed(c, suffixes[1]) ELSE c
        rname(c) == IF c \in overlap THEN Suffixed(c, suffixes[2]) ELSE c
        matches(i) ==
            SelectSeq(Indices(Len(right.rows)), LAMBDA j : right.rows[j][rk] = left.rows[i][lk])
        joined(i) ==
            [m \in 1..Len(matches(i)) |->
                left.rows[i] \o [k \in 1..Len(rest) |-> right.rows[matches(i)[m]][rest[k]]]]
    IN  [columns |-> [i \in 1..Len(left.columns) |-> lname(left.columns[i])]
                        \o [k \in 1..Len(rest) |-> rname(right.columns[rest[k]])],
         rows |-> Flatten([i \in 1..Len(left.rows) |-> joined(i)])]

\* a - b on two columns, cell by cell; NaN where either is NaN.
Minus(a, b) ==
    [i \in 1..Len(a) |-> IF IsNull(a[i]) \/ IsNull(b[i]) THEN NaN ELSE Some(a[i][1] - b[i][1])]

\* ---------------------------------------------------------------- upstream
\* The period strings of the upstream window ("<day>T<hour>"), as <<day, hour>>:
\* the first and the last hour of each day (&start=...T00, &end=...T23).
Periods == {<<d, h>> : d \in 0..MaxDay, h \in {0, 23}}

Values == 1..MaxValue

\* pd.to_datetime on a period: hours since the start of the window; a missing
\* period parses to NaT.
to_datetime(p) == IF p = NaN THEN NaN ELSE Some(p[1] * 24 + p[2])

\* A well-formed record of response.data: a period and a value (null allowed).
Records == [period : Periods, value : {Some(v) : v \in Values} \cup {NaN}]

SeqsUpTo(S, n) == UNION {[1..k -> S] : k \in 0..n}

\* response.data arrays whose records all lack the period, or all lack the value.
MalformedData ==
    {<<[value |-> Some(v)]>> : v \in Values} \cup {<<[period |-> p]>> : p \in Periods}

\* A JSON object's .get(key, default).
Get(obj, key, default) == IF key \in DOMAIN obj THEN obj[key] ELSE default

\* The JSON bodies of a 200 response: one with no "response" key, one whose
\* response has no "data" key, and {"response": {"data": [...]}}.
Bodies ==
    {[apiVersion |-> "2"], [response |-> [total |-> "0"]]}
        \cup {[response |-> [data |-> d]] : d \in SeqsUpTo(Records, MaxRecords) \cup MalformedData}

\* What requests.get can do: raise (no connection), or return a response.
Responses ==
    {[kind |-> "ConnectionError"], [kind |-> "response", status |-> 500, json |-> [apiVersion |-> "2"]]}
        \cup {[kind |-> "response", status |-> 200, json |-> b] : b \in Bodies}

\* r.json().get("response", {}).get("data", [])
DataOf(resp) == Get(Get(resp.json, "response", [none |-> 0]), "data", <<>>)

\* The earliest periods of the window, as many as fit in a response, one record
\* each, ascending, every value the same reading: what the upstream returns when
\* it honours the requested sort.
IsHealthy(data) ==
    /\ Len(data) = IF MaxRecords < Cardinality(Periods) THEN MaxRecords ELSE Cardinality(Periods)
    /\ \A i \in 1..Len(data) : DOMAIN data[i] = {"period", "value"} /\ ~IsNull(data[i].value)
    /\ \A i \in 1..Len(data) : data[i].value = data[1].value
    /\ \A i, j \in 1..Len(data) :
          i < j => to_datetime(data[i].period)[1] < to_datetime(data[j].period)[1]
    /\ \A p \in Periods :
          (\A i \in 1..Len(data) : data[i].period # p) =>
              \A i \in 1..Len(data) : to_datetime(data[i].period)[1] < to_datetime(p)[1]

\* The coarse feed of the whole-render specification: a failure of each kind, an
\* empty payload, a malformed payload, or a healthy one.
CoarseResponses ==
    {r \in Responses :
        \/ r.kind = "ConnectionError"
        \/ r.status # 200
        \/ DataOf(r) = <<>>
        \/ DataOf(r) \in MalformedData
        \/ IsHealthy(DataOf(r))}

\* ------------------------------------------------- fetch_eia_v2_hourly_series
Variants == {"final_debugged", "cleaned_v2", "rolling7d", "v2api"}

metric_map ==
    [demand |-> "D", net_generation |-> "NG", wind |-> "NG.WND", solar |-> "NG.SUN",
     net_interchange |-> "NI", lmp_da |-> "LMP_DA", lmp_rt |-> "LMP_RT"]

HasField(data, f) == \E i \in 1..Len(data) : f \in DOMAIN data[i]

\* A mutant: drop_duplicates("datetime") added, which keeps a timestamp's first row.
frame_without_repeats(data, metric) ==
    LET kept == SelectSeq(Indices(Len(data)),
                          LAMBDA i : \A j \in 1..(i - 1) :
                                        Get(data[j], "period", NaN) # Get(data[i], "period", NaN))
    IN  [columns |-> <<"datetime", metric>>,
         rows |-> [k \in 1..Len(kept) |->
                     <<to_datetime(Get(data[kept[k]], "period", NaN)),
                       Get(data[kept[k]], "value", NaN)>>]]

\* pd.DataFrame(data); df["datetime"] = pd.to_datetime(df["period"]);
\* df[["datetime", "value"]].rename(columns={"value": metric}): one row per record,
\* in the order of the records; a key missing from one record is NaN there.
FrameOf(data, metric) ==
    [columns |-> <<"datetime", metric>>,
     rows |-> [i \in 1..Len(data) |->
                 <<to_datetime(Get(data[i], "period", NaN)), Get(data[i], "value", NaN)>>]]

Returned(df, calls, msgs) == [exc |-> "none", df |-> df, http |-> calls, ui |-> msgs]

Raised(e, calls, msgs) == [exc |-> e, df |-> Unbound, http |-> calls, ui |-> msgs]

\* The body after the metric check: the request, then the reshaping.
RequestAndReshape(metric, resp, msgs) ==
    LET calls == <<metric_map[metric]>>
        data == DataOf(resp)
    IN  IF resp.kind = "ConnectionError" THEN Raised("ConnectionError", calls, msgs)
        ELSE IF resp.status # 200
            THEN Returned(EmptyFrame, calls, Append(msgs, "warning: API call failed"))
        ELSE IF data = <<>>
            THEN Returned(EmptyFrame, calls, Append(msgs, "warning: No data found"))
        ELSE IF ~HasField(data, "period") \/ ~HasField(data, "value")
            THEN Raised("KeyError", calls, msgs)
        ELSE Returned(FrameOf(data, metric), calls, msgs)

\* A mutant: the request is sent before the metric is checked.
fetch_checks_after_request(variant, metric, resp) ==
    IF variant = "rolling7d" THEN Raised("AttributeError", <<>>, <<>>)
    ELSE IF metric \notin DOMAIN metric_map
        THEN Returned(EmptyFrame, <<"None">>, <<"error: Unsupported metric">>)
    ELSE RequestAndReshape(metric, resp, <<>>)

\* The call fetch_eia_v2_hourly_series(respondent, metric, api_key) of a variant,
\* given what requests.get does: the exception raised or the frame returned, the
\* requests issued (the metric code of each) and the messages shown.
\* rolling7d imports the module datetime and calls datetime.utcnow(): the call
\* raises AttributeError on its first line. final_debugged shows the data range
\* first.
fetch_eia_v2_hourly_series(variant, metric, resp) ==
    LET msgs == IF variant = "final_debugged" THEN <<"caption: Data range">> ELSE <<>>
    IN  IF variant = "rolling7d" THEN Raised("AttributeError", <<>>, <<>>)
        ELSE IF metric \notin DOMAIN metric_map
            THEN Returned(EmptyFrame, <<>>, Append(msgs, "error: Unsupported metric"))
        ELSE RequestAndReshape(metric, resp, msgs)

\* --------------------------------------------------------------------- state
VARIABLES
    pc,             \* the statement the script (or the caller) is at
    exc,            \* the exception that ended it, or "none"
    variant,        \* the file whose code runs
    arg_metric,     \* the metric argument of the call under test
    reply,          \* what requests.get did in that call
    ret,            \* what that call returned
    load_df, wind_df, solar_df, ni_df, da_df, rt_df,
    forecast,       \* m.predict(future)
    merged,         \* the renewables table
    merged_prices,  \* the intertie table
    http,           \* the requests issued so far: the metric code of each
    ui              \* what was shown so far

vars ==
    <<pc, exc, variant, arg_metric, reply, ret, load_df, wind_df, solar_df, ni_df, da_df, rt_df,
      forecast, merged, merged_prices, http, ui>>

frames == <<load_df, wind_df, solar_df, ni_df, da_df, rt_df, forecast, merged, merged_prices>>

NoFrames ==
    /\ load_df = Unbound /\ wind_df = Unbound /\ solar_df = Unbound
    /\ ni_df = Unbound /\ da_df = Unbound /\ rt_df = Unbound
    /\ forecast = Unbound /\ merged = Unbound /\ merged_prices = Unbound

NoReply == [kind |-> "none"]

\* ------------------------------------------- one call of the fetch function
\* The metric strings a caller may pass: the keys of metric_map, the two price
\* kinds under the names the specification gives them, and a stray one.
MetricStrings == DOMAIN metric_map \cup {"day_ahead_price", "real_time_price", "load"}

InitFetch ==
    /\ pc = "import" /\ exc = "none"
    /\ variant \in Variants
    /\ arg_metric \in MetricStrings
    /\ reply = NoReply /\ ret = Unbound /\ NoFrames
    /\ http = <<>> /\ ui = <<>>

\* Compiling the file: electricity_dashboard_v2api.py has its old
\* "def fetch_eia_series" commented out and the body left indented
\* (IndentationError), so nothing of it ever runs.
Import ==
    /\ pc = "import"
    /\ IF variant = "v2api"
          THEN pc' = "raised" /\ exc' = "IndentationError"
          ELSE pc' = "call" /\ exc' = exc
    /\ UNCHANGED <<variant, arg_metric, reply, ret, frames, http, ui>>

Call ==
    /\ pc = "call"
    /\ \E resp \in Responses :
          LET r == fetch_eia_v2_hourly_series(variant, arg_metric, resp)
          IN  /\ pc' = IF r.exc = "none" THEN "returned" ELSE "raised"
              /\ exc' = r.exc
              /\ reply' = IF r.http = <<>> THEN reply ELSE resp
              /\ ret' = r.df
              /\ http' = http \o r.http
              /\ ui' = ui \o r.ui
    /\ UNCHANGED <<variant, arg_metric, frames>>

NextFetch == Import \/ Call

SpecFetch == InitFetch /\ [][NextFetch]_vars

\* ------------------------------------------------------------------ Prophet
\* Prophet.fit refuses a history of fewer than 2 rows with a value.
MinHistory == 2

\* make_future_dataframe(periods=48, freq="H").
Horizon == 48

RECURSIVE Ascending(_)
Ascending(S) ==
    IF S = {} THEN <<>>
    ELSE LET m == CHOOSE x \in S : \A y \in S : x <= y IN <<m>> \o Ascending(S \ {m})

\* m.make_future_dataframe(periods=48, freq="H") after m.fit on a frame whose ds
\* column is ds: the history's dates (unique, ascending; include_history defaults
\* to True), then the 48 hours after the last of them.
make_future_dataframe(ds) ==
    LET dates == Ascending({ds[i][1] : i \in 1..Len(ds)})
        last == dates[Len(dates)]
    IN  dates \o [i \in 1..Horizon |-> last + i]

\* m.predict(future): one row per date of future (the estimates are the
\* forecaster's own and are not modelled).
predict(future) == [columns |-> <<"ds">>, rows |-> [i \in 1..Len(future) |-> <<Some(future[i])>>]]

\* ------------------------------------------- the render of final_debugged.py
\* fetch_eia_v2_hourly_series ran at a call site of the script: its requests
\* and messages are added, and an exception ends the script.
Landed(r, next) ==
    /\ pc' = IF r.exc = "none" THEN next ELSE "raised"
    /\ exc' = r.exc
    /\ http' = http \o r.http
    /\ ui' = ui \o r.ui

InitRender ==
    /\ pc = "L84" /\ exc = "none"
    /\ variant = "final_debugged"
    /\ arg_metric = "" /\ reply = NoReply /\ ret = Unbound /\ NoFrames
    /\ http = <<>>
    /\ ui = <<"title">>

\* line 84
FetchLoad(feed) ==
    /\ pc = "L84"
    /\ \E resp \in feed :
          LET r == fetch_eia_v2_hourly_series(variant, "demand", resp)
          IN  Landed(r, "L86") /\ load_df' = r.df
    /\ UNCHANGED <<variant, arg_metric, reply, ret, wind_df, solar_df, ni_df, da_df, rt_df,
                   forecast, merged, merged_prices>>

\* lines 86-96
LoadAndForecast ==
    /\ pc = "L86"
    /\ IF IsEmpty(load_df)
          THEN pc' = "L100" /\ UNCHANGED <<exc, forecast, ui>>
          ELSE LET df_p == RenameColumn(RenameColumn(load_df, load_df.columns[2], "y"),
                                        "datetime", "ds")
                   y == Column(df_p, "y")
                   shown == ui \o <<"subheader: Hourly Load and Forecast", "line_chart: load">>
               IN  IF Cardinality({i \in 1..Len(y) : ~IsNull(y[i])}) < MinHistory
                       THEN /\ pc' = "raised" /\ exc' = "ValueError"
                            /\ ui' = shown
                            /\ UNCHANGED forecast
                       ELSE /\ pc' = "L100" /\ exc' = exc
                            /\ forecast' = predict(make_future_dataframe(Column(df_p, "ds")))
                            /\ ui' = Append(shown, "chart: Load Forecast (Next 48h)")
    /\ UNCHANGED <<variant, arg_metric, reply, ret, load_df, wind_df, solar_df, ni_df, da_df, rt_df,
                   merged, merged_prices, http>>

\* line 100
RenewablesHeader ==
    /\ pc = "L100"
    /\ pc' = "L101"
    /\ ui' = Append(ui, "subheader: Renewable Integration")
    /\ UNCHANGED <<exc, variant, arg_metric, reply, ret, frames, http>>

\* line 101
FetchWind(feed) ==
    /\ pc = "L101"
    /\ \E resp \in feed :
          LET r == fetch_eia_v2_hourly_series(variant, "wind", resp)
          IN  Landed(r, "L102") /\ wind_df' = r.df
    /\ UNCHANGED <<variant, arg_metric, reply, ret, load_df, solar_df, ni_df, da_df, rt_df,
                   forecast, merged, merged_prices>>

\* line 102
FetchSolar(feed) ==
    /\ pc = "L102"
    /\ \E resp \in feed :
          LET r == fetch_eia_v2_hourly_series(variant, "solar", resp)
          IN  Landed(r, "L104") /\ solar_df' = r.df
    /\ UNCHANGED <<variant, arg_metric, reply, ret, load_df, wind_df, ni_df, da_df, rt_df,
                   forecast, merged, merged_prices>>

\* lines 104-108: no else branch.
Renewables ==
    /\ pc = "L104"
    /\ pc' = "L112"
    /\ IF ~IsEmpty(wind_df) /\ ~IsEmpty(solar_df) /\ ~IsEmpty(load_df)
          THEN /\ merged' = merge(merge(load_df, wind_df, "datetime", DefaultSuffixes),
                                   solar_df, "datetime", DefaultSuffixes)
               /\ ui' = Append(ui, "chart: Stacked Renewables vs Load")
          ELSE UNCHANGED <<merged, ui>>
    /\ UNCHANGED <<exc, variant, arg_metric, reply, ret, load_df, wind_df, solar_df, ni_df, da_df,
                   rt_df, forecast, merged_prices, http>>

\* line 112
IntertieHeader ==
    /\ pc = "L112"
    /\ pc' = "L113"
    /\ ui' = Append(ui, "subheader: Intertie Arbitrage Analysis")
    /\ UNCHANGED <<exc, variant, arg_metric, reply, ret, frames, http>>

\* line 113
FetchNI(feed) ==
    /\ pc = "L113"
    /\ \E resp \in feed :
          LET r == fetch_eia_v2_hourly_series(variant, "net_interchange", resp)
          IN  Landed(r, "L114") /\ ni_df' = r.df
    /\ UNCHANGED <<variant, arg_metric, reply, ret, load_df, wind_df, solar_df, da_df, rt_df,
                   forecast, merged, merged_prices>>

\* line 114
FetchDA(feed) ==
    /\ pc = "L114"
    /\ \E resp \in feed :
          LET r == fetch_eia_v2_hourly_series(variant, "lmp_da", resp)
          IN  Landed(r, "L115") /\ da_df' = r.df
    /\ UNCHANGED <<variant, arg_metric, reply, ret, load_df, wind_df, solar_df, ni_df, rt_df,
                   forecast, merged, merged_prices>>

\* line 115
FetchRT(feed) ==
    /\ pc = "L115"
    /\ \E resp \in feed :
          LET r == fetch_eia_v2_hourly_series(variant, "lmp_rt", resp)
          IN  Landed(r, "L117") /\ rt_df' = r.df
    /\ UNCHANGED <<variant, arg_metric, reply, ret, load_df, wind_df, solar_df, ni_df, da_df,
                   forecast, merged, merged_prices>>

\* lines 117, 126-127
IntertieGuard ==
    /\ pc = "L117"
    /\ IF ~IsEmpty(ni_df) /\ ~IsEmpty(da_df) /\ ~IsEmpty(rt_df)
          THEN pc' = "L118" /\ ui' = ui
          ELSE pc' = "done" /\ ui' = Append(ui, "info: Some intertie or price data is unavailable")
    /\ UNCHANGED <<exc, variant, arg_metric, reply, ret, frames, http>>

\* line 118
MergePrices ==
    /\ pc = "L118"
    /\ pc' = "L119"
    /\ merged_prices' = merge(merge(da_df, rt_df, "datetime", <<"_DA", "_RT">>),
                              ni_df, "datetime", DefaultSuffixes)
    /\ UNCHANGED <<exc, variant, arg_metric, reply, ret, load_df, wind_df, solar_df, ni_df, da_df,
                   rt_df, forecast, merged, http, ui>>

\* A mutant: the reverse difference.
spread_reversed(table, da, rt) ==
    SetColumn(table, "Spread ($/MWh)", Minus(Column(table, rt.columns[2]), Column(table, da.columns[2])))

\* line 119: merged_prices["Spread ($/MWh)"] =
\*     merged_prices[da_df.columns[1]] - merged_prices[rt_df.columns[1]]
spread(table, da, rt) ==
    SetColumn(table, "Spread ($/MWh)", Minus(Column(table, da.columns[2]), Column(table, rt.columns[2])))

\* line 119: the table is assigned into, in place.
AddSpread ==
    /\ pc = "L119"
    /\ IF HasColumn(merged_prices, da_df.columns[2]) /\ HasColumn(merged_prices, rt_df.columns[2])
          THEN /\ pc' = "L120" /\ exc' = exc
               /\ merged_prices' = spread(merged_prices, da_df, rt_df)
          ELSE /\ pc' = "raised" /\ exc' = "KeyError"
               /\ UNCHANGED merged_prices
    /\ UNCHANGED <<variant, arg_metric, reply, ret, load_df, wind_df, solar_df, ni_df, da_df,
                   rt_df, forecast, merged, http, ui>>

\* A mutant: the rename also reaches the fetched series.
RenameNI_and_series ==
    /\ pc = "L120"
    /\ pc' = "L122"
    /\ merged_prices' = RenameColumn(merged_prices, ni_df.columns[2], "Net Interchange (MW)")
    /\ ni_df' = RenameColumn(ni_df, ni_df.columns[2], "Net Interchange (MW)")
    /\ UNCHANGED <<exc, variant, arg_metric, reply, ret, load_df, wind_df, solar_df, da_df,
                   rt_df, forecast, merged, http, ui>>

\* line 120: rename(..., inplace=True).
RenameNI ==
    /\ pc = "L120"
    /\ pc' = "L122"
    /\ merged_prices' = RenameColumn(merged_prices, ni_df.columns[2], "Net Interchange (MW)")
    /\ UNCHANGED <<exc, variant, arg_metric, reply, ret, load_df, wind_df, solar_df, ni_df, da_df,
                   rt_df, forecast, merged, http, ui>>

\* lines 122-125
ChartPrices ==
    /\ pc = "L122"
    /\ pc' = "done"
    /\ ui' = ui \o <<"chart: Net Interchange vs DA-RT Spread", "dataframe: merged_prices.tail(24)">>
    /\ UNCHANGED <<exc, variant, arg_metric, reply, ret, frames, http>>

\* The whole render, on the coarse feed.
Next ==
    \/ FetchLoad(CoarseResponses)
    \/ LoadAndForecast
    \/ RenewablesHeader
    \/ FetchWind(CoarseResponses)
    \/ FetchSolar(CoarseResponses)
    \/ Renewables
    \/ IntertieHeader
    \/ FetchNI(CoarseResponses)
    \/ FetchDA(CoarseResponses)
    \/ FetchRT(CoarseResponses)
    \/ IntertieGuard
    \/ MergePrices
    \/ AddSpread
    \/ RenameNI
    \/ ChartPrices

Spec == InitRender /\ [][Next]_vars

\* The script at line 113 of a render whose demand, wind and solar requests all
\* came back non-200.
AtIntertieAfterFailures ==
    /\ pc = "L113" /\ exc = "none"
    /\ variant = "final_debugged"
    /\ arg_metric = "" /\ reply = NoReply /\ ret = Unbound
    /\ load_df = EmptyFrame /\ wind_df = EmptyFrame /\ solar_df = EmptyFrame
    /\ ni_df = Unbound /\ da_df = Unbound /\ rt_df = Unbound
    /\ forecast = Unbound /\ merged = Unbound /\ merged_prices = Unbound
    /\ http = <<"D", "NG.WND", "NG.SUN">>
    /\ ui = <<"title", "caption: Data range", "warning: API call failed",
              "subheader: Renewable Integration",
              "caption: Data range", "warning: API call failed",
              "caption: Data range", "warning: API call failed",
              "subheader: Intertie Arbitrage Analysis">>

\* The two modules of the render on the full feed, each on its own: the script
\* from its start to the end of the renewables block, and the intertie block of
\* a render whose first three requests failed.
InitModules == InitRender \/ AtIntertieAfterFailures

NextModules ==
    \/ FetchLoad(Responses)
    \/ LoadAndForecast
    \/ RenewablesHeader
    \/ FetchWind(Responses)
    \/ FetchSolar(Responses)
    \/ Renewables
    \/ FetchNI(Responses)
    \/ FetchDA(Responses)
    \/ FetchRT(Responses)
    \/ IntertieGuard
    \/ MergePrices
    \/ AddSpread
    \/ RenameNI
    \/ ChartPrices

SpecModules == InitModules /\ [][NextModules]_vars

\* The state the intertie block starts from is one the whole render reaches.
NotAtIntertieAfterFailures == ~AtIntertieAfterFailures

\* ===================================================================== claims
Shown(msg) == \E i \in 1..Len(ui) : ui[i] = msg

\* The call under test has ended (the file compiled, so there was a call).
CallEnded == pc \in {"returned", "raised"} /\ exc # "IndentationError"

\* The seven metric kinds as the specification's data model names them.
SpecMetricKinds ==
    {"demand", "net_generation", "wind", "solar", "net_interchange",
     "day_ahead_price", "real_time_price"}

\* C1, as claimed: in every variant a metric string outside the seven kinds
\* demand, net_generation, wind, solar, net_interchange, day_ahead_price,
\* real_time_price gets an empty result with no HTTP request, and none of those
\* seven is rejected as unsupported.
C1_SpecKindsSupported ==
    CallEnded =>
        /\ arg_metric \notin SpecMetricKinds =>
                pc = "returned" /\ ret = EmptyFrame /\ http = <<>>
        /\ arg_metric \in SpecMetricKinds => ~Shown("error: Unsupported metric")

\* C1, amended: a metric string that is no key of metric_map never causes an
\* HTTP request and never yields a series: the call shows "Unsupported metric"
\* and returns the empty frame (rolling7d raises AttributeError before the
\* check). The seven keys are demand, net_generation, wind, solar,
\* net_interchange, lmp_da and lmp_rt: none of them is rejected as unsupported,
\* and each call that gets as far as the check requests its own metric code once.
\* day_ahead_price and real_time_price are no keys and are rejected.
C1_UnsupportedMetricNoRequest ==
    CallEnded =>
        /\ arg_metric \notin {"demand", "net_generation", "wind", "solar", "net_interchange",
                               "lmp_da", "lmp_rt"} =>
                /\ http = <<>>
                /\ IF variant = "rolling7d"
                      THEN pc = "raised" /\ exc = "AttributeError" /\ ret = Unbound
                      ELSE pc = "returned" /\ ret = EmptyFrame
                               /\ Shown("error: Unsupported metric")
        /\ arg_metric \in {"demand", "net_generation", "wind", "solar", "net_interchange",
                            "lmp_da", "lmp_rt"} =>
                /\ ~Shown("error: Unsupported metric")
                /\ variant # "rolling7d" => http = <<metric_map[arg_metric]>>

\* C1, witness: day_ahead_price was passed to final_debugged's function, which
\* rejected it without a request.
C1_Witness ==
    /\ pc = "returned" /\ variant = "final_debugged" /\ arg_metric = "day_ahead_price"
    /\ ret = EmptyFrame /\ http = <<>> /\ Shown("error: Unsupported metric")

\* The call under test got a 200 response whose data is N >= 1 records that each
\* hold a period and a non-null value, and it returned.
ReturnedForRecords ==
    /\ pc = "returned" /\ reply.kind = "response" /\ reply.status = 200
    /\ DataOf(reply) # <<>>
    /\ \A i \in 1..Len(DataOf(reply)) :
          DOMAIN DataOf(reply)[i] = {"period", "value"} /\ ~IsNull(DataOf(reply)[i].value)

\* The rows' datetime cells increase strictly: sorted, and no timestamp twice.
StrictlyAscending(df) ==
    \A i, j \in 1..Len(df.rows) : i < j => df.rows[i][1][1] < df.rows[j][1][1]

\* Period strings in strictly ascending order (day, then hour).
PeriodBefore(p, q) == p[1] < q[1] \/ (p[1] = q[1] /\ p[2] < q[2])

\* C2, as claimed: N well-formed records, in any order and with or without
\* repeated periods, give exactly N rows, sorted ascending by timestamp with no
\* duplicate timestamp, with the two fields datetime and the metric's name.
C2_SortedUniqueSeries ==
    ReturnedForRecords =>
        /\ ret.columns = <<"datetime", arg_metric>>
        /\ Len(ret.rows) = Len(DataOf(reply))
        /\ StrictlyAscending(ret)

\* C2, amended: N well-formed records give exactly N rows with the two fields
\* datetime and the metric's name, row i holding record i's timestamp and value:
\* the upstream order and the upstream's repeats are kept, so the series is
\* sorted with no duplicate timestamp exactly when the records are. (rolling7d
\* never returns: its call raises AttributeError before the request.)
C2_RowsFollowRecords ==
    ReturnedForRecords =>
        LET data == DataOf(reply) IN
        /\ variant # "rolling7d"
        /\ ret.columns = <<"datetime", arg_metric>>
        /\ Len(ret.rows) = Len(data)
        /\ \A i \in 1..Len(data) :
              ret.rows[i] = <<Some(24 * data[i].period[1] + data[i].period[2]), data[i].value>>
        /\ StrictlyAscending(ret) <=>
              \A i, j \in 1..Len(data) : i < j => PeriodBefore(data[i].period, data[j].period)

\* C2, witness: two records of the same period came back as two rows of the
\* same timestamp.
C2_Witness ==
    /\ ReturnedForRecords
    /\ Len(DataOf(reply)) = 2 /\ DataOf(reply)[1].period = DataOf(reply)[2].period
    /\ Len(ret.rows) = 2 /\ ret.rows[1][1] = ret.rows[2][1]

\* C3, as claimed: a fetch whose response is non-200, has no data, or has records
\* without the period or the value field ends with an empty result, not with an
\* exception, and a render that ends has issued all six requests.
C3_FetchesIndependent ==
    /\ exc # "KeyError"
    /\ pc = "done" => Len(http) = 6

\* ----------------------------------------------------------- aligned tables
\* The timestamps a frame holds.
Timestamps(df) == {df.rows[i][ColIndex(df, "datetime")] : i \in 1..Len(df.rows)}

CommonTimestamps(a, b, c) == Timestamps(a) \cap Timestamps(b) \cap Timestamps(c)

\* How many rows of a frame carry timestamp t.
Repeats(df, t) ==
    Cardinality({i \in 1..Len(df.rows) : df.rows[i][ColIndex(df, "datetime")] = t})

NoRepeats(df) == \A t \in Timestamps(df) : Repeats(df, t) = 1

RECURSIVE PairedRows(_, _, _, _)
PairedRows(S, a, b, c) ==
    IF S = {} THEN 0
    ELSE LET t == CHOOSE x \in S : TRUE
         IN  Repeats(a, t) * Repeats(b, t) * Repeats(c, t) + PairedRows(S \ {t}, a, b, c)

\* The aligned table of a chain is bound and not yet augmented.
RenewablesAligned == merged # Unbound

PricesAligned == pc = "L119"

\* C4, as claimed: the chained merge on datetime yields one row per timestamp
\* present in all three inputs and nothing else: K common timestamps, K rows.
C4_OneRowPerCommonTimestamp ==
    /\ RenewablesAligned =>
          /\ Timestamps(merged) = CommonTimestamps(load_df, wind_df, solar_df)
          /\ Len(merged.rows) = Cardinality(CommonTimestamps(load_df, wind_df, solar_df))
    /\ PricesAligned =>
          /\ Timestamps(merged_prices) = CommonTimestamps(da_df, rt_df, ni_df)
          /\ Len(merged_prices.rows) = Cardinality(CommonTimestamps(da_df, rt_df, ni_df))

\* The timestamps of an aligned table are exactly those common to its inputs; a
\* common timestamp has as many rows as the product of its repeats in the
\* inputs, which is one row when no input repeats a timestamp.
AlignedOn(table, a, b, c) ==
    /\ Timestamps(table) = CommonTimestamps(a, b, c)
    /\ Len(table.rows) = PairedRows(CommonTimestamps(a, b, c), a, b, c)
    /\ NoRepeats(a) /\ NoRepeats(b) /\ NoRepeats(c) =>
          Len(table.rows) = Cardinality(CommonTimestamps(a, b, c))

\* C4, amended: the chained merge keeps exactly the timestamps present in all
\* three inputs (none when they share none), with one row per combination of
\* input rows of that timestamp: K rows for K common timestamps when no input
\* repeats a timestamp, more when one does (the fetch keeps upstream repeats).
C4_RowsPerCommonTimestamp ==
    /\ RenewablesAligned => AlignedOn(merged, load_df, wind_df, solar_df)
    /\ PricesAligned => AlignedOn(merged_prices, da_df, rt_df, ni_df)

\* C4, witness: demand repeats its one timestamp, wind holds it and another,
\* solar holds it: one common timestamp, two rows.
C4_Witness ==
    /\ RenewablesAligned
    /\ Cardinality(CommonTimestamps(load_df, wind_df, solar_df)) = 1
    /\ Cardinality(Timestamps(wind_df)) = 2
    /\ \E t \in Timestamps(load_df) : Repeats(load_df, t) = 2
    /\ Len(merged.rows) = 2

\* ------------------------------------------------------------------ spread
\* The intertie table carries its derived column.
SpreadAdded == pc \in {"L120", "L122"} \/ (pc = "done" /\ merged_prices # Unbound)

Cell(table, i, name) == table.rows[i][ColIndex(table, name)]

LastObserved == load_df.rows[Len(load_df.rows)][1][1]

\* C6, as claimed: the forecast table handed to the chart has exactly 48 rows,
\* at T+1h .. T+48h in that order, T the last observed timestamp, and no row at
\* or before T.
C6_ForecastIsTheHorizon ==
    forecast # Unbound =>
        /\ Len(forecast.rows) = 48
        /\ \A i \in 1..Len(forecast.rows) : forecast.rows[i][1] = <<LastObserved + i>>

\* ---------------------------------------------------------- order of joins
\* The rows of a table as a set, each row as its (column, cell) pairs.
RowSet(df) ==
    {{<<df.columns[k], df.rows[i][k]>> : k \in 1..Len(df.columns)} : i \in 1..Len(df.rows)}

\* C7: joining in the reverse order gives the same rows: the same timestamps
\* and, at each, the same value of each metric (and as many rows).
C7_JoinOrderIrrelevant ==
    /\ RenewablesAligned =>
          LET reverse == merge(merge(solar_df, wind_df, "datetime", DefaultSuffixes),
                               load_df, "datetime", DefaultSuffixes)
          IN  RowSet(merged) = RowSet(reverse) /\ Len(merged.rows) = Len(reverse.rows)
    /\ PricesAligned =>
          LET reverse == merge(merge(ni_df, rt_df, "datetime", DefaultSuffixes),
                               da_df, "datetime", DefaultSuffixes)
          IN  RowSet(merged_prices) = RowSet(reverse)
                /\ Len(merged_prices.rows) = Len(reverse.rows)

\* C7, witness: a table of two timestamps built from inputs in different orders
\* (demand and solar start at different timestamps) and with different values
\* (wind's two readings differ).
C7_Witness ==
    /\ RenewablesAligned
    /\ Cardinality(Timestamps(merged)) = 2
    /\ load_df.rows[1][1] # solar_df.rows[1][1]
    /\ Len(wind_df.rows) = 2 /\ wind_df.rows[1][2] # wind_df.rows[2][2]

\* ------------------------------------------------------------ missing cells
NoMissingCell(table) ==
    \A i \in 1..Len(table.rows) : \A k \in 1..Len(table.columns) :
        table.columns[k] # "Spread ($/MWh)" => table.rows[i][k] # NaN

\* C8, as claimed: every row of merged and of merged_prices has a value in
\* every metric column; an hour whose value is null in a series is left out.
C8_NoMissingCell ==
    /\ merged # Unbound => NoMissingCell(merged)
    /\ merged_prices # Unbound => NoMissingCell(merged_prices)

\* --------------------------------------------------------- module outcomes
Notices ==
    {"warning: API call failed", "warning: No data found",
     "info: Some intertie or price data is unavailable"}

At(msg) == CHOOSE i \in 1..Len(ui) : ui[i] = msg

\* A notice shown under the renewables header and before the intertie header:
\* the block has none of its own, so only a warning of the wind or solar fetch.
RenewablesNotice ==
    \E i \in 1..Len(ui) :
        /\ At("subheader: Renewable Integration") < i
        /\ i < At("subheader: Intertie Arbitrage Analysis")
        /\ ui[i] \in Notices

IntertieNotice ==
    \E i \in 1..Len(ui) : At("subheader: Intertie Arbitrage Analysis") < i /\ ui[i] \in Notices

\* C9, as claimed: when a series feeding a module is empty the module joins
\* nothing, raises nothing and tells the user that data is unavailable, and in
\* each module exactly one of the two happens in a render: the chart is drawn,
\* or the notice is shown.
C9_EachModuleReports ==
    pc = "done" =>
        /\ IsEmpty(load_df) \/ IsEmpty(wind_df) \/ IsEmpty(solar_df) =>
              merged = Unbound /\ RenewablesNotice
        /\ Shown("chart: Stacked Renewables vs Load") # RenewablesNotice
        /\ IsEmpty(ni_df) \/ IsEmpty(da_df) \/ IsEmpty(rt_df) =>
              merged_prices = Unbound /\ IntertieNotice
        /\ Shown("chart: Net Interchange vs DA-RT Spread") # IntertieNotice

\* ------------------------------------------------------------------- frame
Deriving == pc \in {"L119", "L120"}

series == <<load_df, wind_df, solar_df, ni_df, da_df, rt_df>>

====
